---------------------------- MODULE Spec2Model ----------------------------
(***************************************************************************)
(* Model of GENERADOR_DE_CARTAS: the column mapper, the table locator and  *)
(* populator, the run-safe placeholder engine and the batch orchestrator   *)
(* (src/core/backend.py, src/core/funcionalidades.py).                     *)
(*                                                                         *)
(* Text is modelled by TLA+ strings, read character by character with      *)
(* Len/SubSeq and built with \o, so that normalisation, slugs, substring   *)
(* tests and token replacement are computed as the code computes them.     *)
(* Strings are kept ASCII.  The accented letters the code meets are each   *)
(* written with one stand-in character, used for nothing else:             *)
(*     a-acute @   e-acute &   i-acute !   o-acute *   u-acute %   enye ~  *)
(*     A-acute #   E-acute $   I-acute |   O-acute ^   U-acute +   ENYE =  *)
(* so "D!a" is the header Dia with an accent on the i.                     *)
(***************************************************************************)
EXTENDS Integers, Sequences, FiniteSets, TLC

(***************************************************************************)
(* Python built-ins on str                                                 *)
(***************************************************************************)

\* s[i], counting from 1
CharAt(s, i) == SubSeq(s, i, i)

\* `sub in s`
StrIn(sub, s) ==
    \E i \in 0..(Len(s) - Len(sub)) : SubSeq(s, i + 1, i + Len(sub)) = sub

\* position of c in the alphabet string abc, 0 when absent
IndexIn(c, abc) ==
    IF \E i \in 1..Len(abc) : CharAt(abc, i) = c
    THEN CHOOSE i \in 1..Len(abc) : CharAt(abc, i) = c
    ELSE 0

CharsOf(abc) == {CharAt(abc, i) : i \in 1..Len(abc)}

UPPER == "ABCDEFGHIJKLMNOPQRSTUVWXYZ#$|^+="
LOWER == "abcdefghijklmnopqrstuvwxyz@&!*%~"
ACCENTED == "#$|^+=@&!*%~"
UNACCENTED == "AEIOUNaeioun"
\* what [A-Za-z0-9_\- ] keeps
SLUG_CHARS == CharsOf("ABCDEFGHIJKLMNOPQRSTUVWXYZabcdefghijklmnopqrstuvwxyz0123456789_- ")
\* what \s and str.strip() take for blank
WHITESPACE == CharsOf(" \t\n\r\f")

IsSpace(c) == c \in WHITESPACE

\* str.lower() on one character
LowerTable == [c \in CharsOf(UPPER) |-> CharAt(LOWER, IndexIn(c, UPPER))]
LowerChar(c) == IF c \in DOMAIN LowerTable THEN LowerTable[c] ELSE c

\* unidecode() on one character
UnidecodeTable == [c \in CharsOf(ACCENTED) |-> CharAt(UNACCENTED, IndexIn(c, ACCENTED))]
UnidecodeChar(c) == IF c \in DOMAIN UnidecodeTable THEN UnidecodeTable[c] ELSE c

\* str.lower() and unidecode(), from character i on
RECURSIVE LowerFrom(_, _)
LowerFrom(s, i) ==
    IF i > Len(s) THEN "" ELSE LowerChar(CharAt(s, i)) \o LowerFrom(s, i + 1)
Lower(s) == LowerFrom(s, 1)

RECURSIVE UnidecodeFrom(_, _)
UnidecodeFrom(s, i) ==
    IF i > Len(s) THEN "" ELSE UnidecodeChar(CharAt(s, i)) \o UnidecodeFrom(s, i + 1)
Unidecode(s) == UnidecodeFrom(s, 1)

\* str.strip(): the first and the last character that are not blank
RECURSIVE FirstNonSpace(_, _)
FirstNonSpace(s, i) ==
    IF i <= Len(s) /\ IsSpace(CharAt(s, i)) THEN FirstNonSpace(s, i + 1) ELSE i

RECURSIVE LastNonSpace(_, _)
LastNonSpace(s, i) ==
    IF i >= 1 /\ IsSpace(CharAt(s, i)) THEN LastNonSpace(s, i - 1) ELSE i

Strip(s) == SubSeq(s, FirstNonSpace(s, 1), LastNonSpace(s, Len(s)))

\* re.sub(r"\s+", " ", s), from character i on
RECURSIVE CollapseFrom(_, _)
CollapseFrom(s, i) ==
    IF i > Len(s) THEN ""
    ELSE IF IsSpace(CharAt(s, i))
         THEN " " \o CollapseFrom(s, FirstNonSpace(s, i))
         ELSE CharAt(s, i) \o CollapseFrom(s, i + 1)
CollapseSpaces(s) == CollapseFrom(s, 1)

\* str.replace(old, new): every non-overlapping occurrence, left to right
RECURSIVE ReplaceFrom(_, _, _, _)
ReplaceFrom(s, i, old, new) ==
    IF i + Len(old) - 1 > Len(s) THEN SubSeq(s, i, Len(s))
    ELSE IF SubSeq(s, i, i + Len(old) - 1) = old
         THEN new \o ReplaceFrom(s, i + Len(old), old, new)
         ELSE CharAt(s, i) \o ReplaceFrom(s, i + 1, old, new)
StrReplace(s, old, new) == IF old = "" THEN s ELSE ReplaceFrom(s, 1, old, new)

\* "".join(seq)
RECURSIVE Join(_)
Join(seq) == IF seq = <<>> THEN "" ELSE Head(seq) \o Join(Tail(seq))

\* str < str, by code point over the characters the model uses (the accented letters
\* come after every ASCII character, capitals first)
CODEPOINTS ==
    "\t\n\f\r (),-./0123456789:ABCDEFGHIJKLMNOPQRSTUVWXYZ_abcdefghijklmnopqrstuvwxyz{}"
    \o "#$|=^+@&!~*%"
Ord == [c \in CharsOf(CODEPOINTS) |-> IndexIn(c, CODEPOINTS)]

RECURSIVE LessFrom(_, _, _)
LessFrom(a, b, i) ==
    IF i > Len(b) THEN FALSE
    ELSE IF i > Len(a) THEN TRUE
    ELSE IF CharAt(a, i) = CharAt(b, i) THEN LessFrom(a, b, i + 1)
    ELSE Ord[CharAt(a, i)] < Ord[CharAt(b, i)]
StrLess(a, b) == LessFrom(a, b, 1)

(***************************************************************************)
(* backend.py: normalisation                                               *)
(***************************************************************************)

\* None, NaN and NaT
NA == [na |-> TRUE, s |-> ""]
Text(s) == [na |-> FALSE, s |-> s]
IsNa(v) == v.na

\* _norm(s): the callers pass str
Norm(s) == CollapseSpaces(Unidecode(Lower(Strip(s))))

\* slugify(text)
RECURSIVE KeepSlugFrom(_, _)
KeepSlugFrom(s, i) ==
    IF i > Len(s) THEN ""
    ELSE (IF CharAt(s, i) \in SLUG_CHARS THEN CharAt(s, i) ELSE "") \o KeepSlugFrom(s, i + 1)
KeepSlugChars(s) == KeepSlugFrom(s, 1)

Slugify(text) ==
    LET s == StrReplace(Strip(KeepSlugChars(Unidecode(Strip(text)))), " ", "_")
    IN IF s = "" THEN "SIN_GRUPO" ELSE s

(***************************************************************************)
(* backend.py: column mapper                                               *)
(***************************************************************************)

ROLES == <<"actor", "mesa", "nivel", "fecha", "dato", "grupo">>
RoleSet == {ROLES[i] : i \in 1..Len(ROLES)}

SYNONYMS ==
    [actor |-> <<"actor", "columna a", "a", "interesado", "responsable", "nombre del actor">>,
     grupo |-> <<"dependencia", "secretaria", "secretar!a", "secretaria de", "entidad",
                 "despacho", "direccion", "direcci*n", "institucion", "instituci*n",
                 "dependencia/entidad", "institucional", "grupo", "responsable">>,
     mesa  |-> <<"nombre de la mesa", "nombre mesa", "mesa", "tema", "asunto",
                 "nombre mesa/tema", "nombre", "actividad">>,
     nivel |-> <<"nivel", "nivel de la mesa", "compromiso", "tipo", "categoria", "categor!a">>,
     fecha |-> <<"fecha", "fecha mesa", "fecha programada", "dia", "d!a", "dia mesa",
                 "fecha de realizacion", "fecha de realizaci*n", "fecha programada mesa">>,
     dato  |-> <<"dato transformador", "dato", "transformador", "descripcion dato",
                 "descripci*n dato", "datos transformadores", "resultado esperado">>]

GRUPO_FALLBACK == <<"entidad", "secretaria", "secretar!a", "dependencia", "despacho", "grupo">>

EXPECTED_HEADERS == <<"nombre de la mesa", "nivel", "fecha", "dato transformador">>

\* x in list
InList(x, list) == \E i \in 1..Len(list) : list[i] = x
\* any(a in cn for a in list)
AnyIn(list, cn) == \E i \in 1..Len(list) : StrIn(list[i], cn)

\* the keys of {c: ... for c in df.columns}, in insertion order
RECURSIVE DictKeys(_)
DictKeys(cols) ==
    IF cols = <<>> THEN <<>>
    ELSE LET init == DictKeys(SubSeq(cols, 1, Len(cols) - 1))
             c == cols[Len(cols)]
         IN IF InList(c, init) THEN init ELSE Append(init, c)

\* [c for c in cols if P(c)]
RECURSIVE ExactCols(_, _)
ExactCols(cols, alias_list) ==
    IF cols = <<>> THEN <<>>
    ELSE (IF InList(Norm(Head(cols)), alias_list) THEN <<Head(cols)>> ELSE <<>>)
         \o ExactCols(Tail(cols), alias_list)

RECURSIVE PartialCols(_, _)
PartialCols(cols, alias_list) ==
    IF cols = <<>> THEN <<>>
    ELSE (IF AnyIn(alias_list, Norm(Head(cols))) THEN <<Head(cols)>> ELSE <<>>)
         \o PartialCols(Tail(cols), alias_list)

\* one turn of the loop taking the first column that matches either way
ResolveRole_AnyMatchFirst(cols, role) ==
    LET partial == PartialCols(cols, SYNONYMS[role])
    IN IF partial # <<>> THEN Text(partial[1]) ELSE NA

\* one turn of the loop over SYNONYMS.items()
ResolveRole(cols, role) ==
    LET exact == ExactCols(cols, SYNONYMS[role])
        partial == PartialCols(cols, SYNONYMS[role])
    IN IF exact # <<>> THEN Text(exact[1])
       ELSE IF partial # <<>> THEN Text(partial[1])
       ELSE NA

\* guess_mapping(df), df.columns = columns
GuessMapping(columns) ==
    LET cols == DictKeys(columns)
        m == [role \in RoleSet |-> ResolveRole(cols, role)]
        fb == PartialCols(cols, GRUPO_FALLBACK)
    IN IF IsNa(m["grupo"]) /\ fb # <<>>
       THEN [m EXCEPT !["grupo"] = Text(fb[1])]
       ELSE m

(***************************************************************************)
(* python-docx objects.  A paragraph is the sequence of its runs' texts, a *)
(* cell holds one paragraph, a table is its grid width (len(t.columns))    *)
(* and its rows, a document its body paragraphs and its tables.            *)
(***************************************************************************)

\* cell.text / the text of a paragraph
ParaText(p) == Join(p)
\* c.text for the cells of one row
RowTexts(row) == [i \in 1..Len(row) |-> ParaText(row[i])]

\* prefer_index / table_index: None or an int
NoIndex == [none |-> TRUE, i |-> 0]
Index(i) == [none |-> FALSE, i |-> i]

(***************************************************************************)
(* The tables templates are made of                                        *)
(***************************************************************************)

Cells(texts) == [i \in 1..Len(texts) |-> <<texts[i]>>]

\* header row naming the four expected phrases, one cell split over two runs
T_MATCH4 == [ncols |-> 4,
             rows |-> << <<<<"Nombre de la Mesa">>, <<" NIVEL ">>, <<"Fecha">>,
                           <<"Dato ", "Transformador">>>>,
                         Cells(<<"vieja", "1", "01/01/2020", "x">>) >>]
\* four columns, header not matching
T_PLAIN4 == [ncols |-> 4,
             rows |-> << Cells(<<"Mesa", "Nivel", "Fecha", "{{DEST}}">>),
                         Cells(<<"a", "b", "c", "d">>),
                         Cells(<<"e", "f", "g", "h">>) >>]
\* four grid columns and no row at all
T_EMPTY4 == [ncols |-> 4, rows |-> <<>>]
\* three columns
T_PLAIN3 == [ncols |-> 3, rows |-> << Cells(<<"Tema", "Fecha", "Lugar">>) >>]
\* two columns whose header cells hold the four phrases
T_MATCH2 == [ncols |-> 2,
             rows |-> << Cells(<<"Nombre de la mesa y nivel", "Fecha / Dato transformador">>),
                         Cells(<<"a", "b">>) >>]
\* five columns, header matching
T_MATCH5 == [ncols |-> 5,
             rows |-> << Cells(<<"NOMBRE DE LA MESA", "Nivel", "Fecha", "Dato transformador",
                                 "Obs. {{DEST}}">>),
                         Cells(<<"a", "b", "c", "d", "e">>) >>]

TableKinds == {T_MATCH4, T_PLAIN4, T_EMPTY4, T_PLAIN3, T_MATCH2, T_MATCH5}

(***************************************************************************)
(* backend.py: locate the table                                            *)
(***************************************************************************)

\* [_norm(c.text) for c in hdr_cells]
RECURSIVE NormTexts(_)
NormTexts(cells) ==
    IF cells = <<>> THEN <<>> ELSE <<Norm(ParaText(Head(cells)))>> \o NormTexts(Tail(cells))

\* [_norm(exp) for exp in EXPECTED_HEADERS]
NORM_EXPECTED == <<Norm(EXPECTED_HEADERS[1]), Norm(EXPECTED_HEADERS[2]),
                   Norm(EXPECTED_HEADERS[3]), Norm(EXPECTED_HEADERS[4])>>

\* _header_matches(table); rows[0] of a table without rows raises
HeaderMatches(table) ==
    IF table.rows = <<>> THEN FALSE
    ELSE LET headers == NormTexts(table.rows[1])
         IN \A e \in 1..Len(EXPECTED_HEADERS) :
                \E h \in 1..Len(headers) :
                    \/ headers[h] = NORM_EXPECTED[e]
                    \/ StrIn(EXPECTED_HEADERS[e], headers[h])

\* the loop of find_target_table, keeping the first four-column table it meets
RECURSIVE ScanTables_FirstCandidate(_, _, _)
ScanTables_FirstCandidate(tables, i, candidate) ==
    IF i > Len(tables) THEN candidate
    ELSE IF HeaderMatches(tables[i]) THEN i
    ELSE ScanTables_FirstCandidate(tables, i + 1,
             IF tables[i].ncols = 4 /\ candidate = 0 THEN i ELSE candidate)

\* the loop of find_target_table from table i on; tables are numbered from 1, 0 is None
RECURSIVE ScanTables(_, _, _)
ScanTables(tables, i, candidate) ==
    IF i > Len(tables) THEN candidate
    ELSE IF HeaderMatches(tables[i]) THEN i
    ELSE ScanTables(tables, i + 1, IF tables[i].ncols = 4 THEN i ELSE candidate)

\* find_target_table(doc, prefer_index)
FindTargetTable(doc, prefer_index) ==
    IF /\ ~prefer_index.none
       /\ 0 <= prefer_index.i
       /\ prefer_index.i < Len(doc.tables)
       /\ doc.tables[prefer_index.i + 1].ncols = 4
    THEN prefer_index.i + 1
    ELSE ScanTables(doc.tables, 1, 0)

(***************************************************************************)
(* backend.py: populate the table                                          *)
(***************************************************************************)

\* clear_table_keep_header with `if` for `while`: one row removed
ClearTableKeepHeader_Once(table) ==
    IF Len(table.rows) > 1
    THEN [table EXCEPT !.rows = SubSeq(@, 1, Len(@) - 1)]
    ELSE table

\* clear_table_keep_header(table)
RECURSIVE ClearTableKeepHeader(_)
ClearTableKeepHeader(table) ==
    IF Len(table.rows) > 1
    THEN ClearTableKeepHeader([table EXCEPT !.rows = SubSeq(@, 1, Len(@) - 1)])
    ELSE table

\* lxml refuses text that XML cannot carry (a form feed and the other control characters)
XmlCompatible(s) == ~StrIn("\f", s)

\* str(r[i]) without the test for None
CellValue_StrNone(v) == IF IsNa(v) THEN "None" ELSE v.s

\* "" if r[i] is None else str(r[i])
CellValue(v) == IF IsNa(v) THEN "" ELSE v.s

\* the loop `for i in range(min(4, len(r)))` from i on (i counts from 0); row.cells[i]
\* raises past the grid, the text setter leaves one run
RECURSIVE FillCells(_, _, _)
FillCells(cells, r, i) ==
    LET n == IF Len(r) < 4 THEN Len(r) ELSE 4 IN
    IF i >= n THEN [ok |-> TRUE, cells |-> cells, err |-> ""]
    ELSE IF i >= Len(cells)
         THEN [ok |-> FALSE, cells |-> cells, err |-> "list index out of range"]
    ELSE IF ~XmlCompatible(CellValue(r[i + 1]))
         THEN [ok |-> FALSE, cells |-> cells, err |-> "All strings must be XML compatible"]
    ELSE FillCells([cells EXCEPT ![i + 1] = <<CellValue(r[i + 1])>>], r, i + 1)

\* fill_table(table, rows): add_row() appends a row of empty cells, one per grid column
RECURSIVE FillTable(_, _)
FillTable(table, rows) ==
    IF rows = <<>> THEN [ok |-> TRUE, table |-> table, err |-> ""]
    ELSE LET filled == FillCells([i \in 1..table.ncols |-> <<>>], Head(rows), 0)
             t2 == [table EXCEPT !.rows = Append(@, filled.cells)]
         IN IF filled.ok THEN FillTable(t2, Tail(rows))
            ELSE [ok |-> FALSE, table |-> t2, err |-> filled.err]

(***************************************************************************)
(* funcionalidades.py: placeholders                                        *)
(***************************************************************************)

\* tokens = {"{{k}}": str(v)}: a dict, here the sequence of its items
Tokens(mapping) == [i \in 1..Len(mapping) |-> [k |-> "{{" \o mapping[i].k \o "}}", v |-> mapping[i].v]]

\* the loop over tokens.items() on the joined text
RECURSIVE ReplaceTokens(_, _)
ReplaceTokens(full, tokens) ==
    IF tokens = <<>> THEN [full |-> full, changed |-> FALSE]
    ELSE LET k == Head(tokens).k
             hit == StrIn(k, full)
             rest == ReplaceTokens(IF hit THEN StrReplace(full, k, Head(tokens).v) ELSE full,
                                   Tail(tokens))
         IN [full |-> rest.full, changed |-> hit \/ rest.changed]

\* _replace_in_paragraph(p), normalize_runs=False: run by run
ReplacePerRun(p, tokens) == [i \in 1..Len(p) |-> ReplaceTokens(p[i], tokens).full]

\* _replace_in_paragraph(p) writing the joined text back whether or not it changed
ReplaceRunsafe_AlwaysWrite(p, tokens) ==
    LET r == ReplaceTokens(Join(p), tokens) IN
    IF p = <<>> THEN <<r.full>>
    ELSE [i \in 1..Len(p) |-> IF i = 1 THEN r.full ELSE ""]

\* _replace_in_paragraph(p), normalize_runs=True
ReplaceRunsafe(p, tokens) ==
    LET r == ReplaceTokens(Join(p), tokens) IN
    IF ~r.changed THEN p
    ELSE IF p = <<>> THEN <<r.full>>
    ELSE [i \in 1..Len(p) |-> IF i = 1 THEN r.full ELSE ""]

\* _replace_in_paragraph(p) replacing run by run whatever normalize_runs says
ReplaceInParagraph_PerRun(p, tokens, normalize_runs) ==
    IF tokens = <<>> THEN p ELSE ReplacePerRun(p, tokens)

ReplaceInParagraph(p, tokens, normalize_runs) ==
    IF tokens = <<>> THEN p
    ELSE IF normalize_runs THEN ReplaceRunsafe(p, tokens)
    ELSE ReplacePerRun(p, tokens)

\* _replace_placeholders_runsafe(doc, mapping, normalize_runs): body paragraphs, then
\* the paragraphs of every cell of every table
ReplacePlaceholdersRunsafe(doc, mapping, normalize_runs) ==
    LET tokens == Tokens(mapping)
        R(p) == ReplaceInParagraph(p, tokens, normalize_runs)
    IN [paragraphs |-> [i \in 1..Len(doc.paragraphs) |-> R(doc.paragraphs[i])],
        tables |-> [t \in 1..Len(doc.tables) |->
                      [doc.tables[t] EXCEPT !.rows =
                          [r \in 1..Len(@) |-> [c \in 1..Len(@[r]) |-> R(@[r][c])]]]]]

(***************************************************************************)
(* funcionalidades.py: build one letter                                    *)
(***************************************************************************)

NO_TABLE_MSG == "No se encontr* una tabla v@lida (4 columnas) en la plantilla."

\* build_letter_bytes(template_bytes, rows, placeholders, table_index): the saved
\* document, or the exception raised.  `if placeholders:` is false for None and for {},
\* both written <<>> here.
BuildLetterBytes(template, rows, placeholders, table_index) ==
    LET t == FindTargetTable(template, table_index) IN
    IF t = 0 THEN [ok |-> FALSE, doc |-> template, err |-> NO_TABLE_MSG]
    ELSE LET filled == FillTable(ClearTableKeepHeader(template.tables[t]), rows)
             doc2 == [template EXCEPT !.tables[t] = filled.table]
         IN IF ~filled.ok THEN [ok |-> FALSE, doc |-> template, err |-> filled.err]
            ELSE [ok |-> TRUE,
                  doc |-> IF placeholders # <<>>
                          THEN ReplacePlaceholdersRunsafe(doc2, placeholders, TRUE)
                          ELSE doc2,
                  err |-> ""]

(***************************************************************************)
(* funcionalidades.py: one letter per group                                *)
(***************************************************************************)

\* _FECHA_TS: NaT or a day, written yyyymmdd
NaT == [na |-> TRUE, day |-> 0]
Day(d) == [na |-> FALSE, day |-> d]

(***************************************************************************)
(* backend.py: parse_date and format_date_dmy.  A cell of the date column  *)
(* is null, a number (kept in tenths, so 19 is 1.9) or a str.              *)
(***************************************************************************)

NullCell == [kind |-> "na", n |-> 0, s |-> ""]
NumCell(tenths) == [kind |-> "num", n |-> tenths, s |-> ""]
StrCell(str) == [kind |-> "str", n |-> 0, s |-> str]

DIGITS == "0123456789"
DigitSet == CharsOf(DIGITS)
DigitVal == [c \in DigitSet |-> CHOOSE k \in 0..9 : CharAt(DIGITS, k + 1) = c]

IsDigits(s) == s # "" /\ \A i \in 1..Len(s) : CharAt(s, i) \in DigitSet

\* int(s) of a str of digits, read up to character i
RECURSIVE ToIntUpTo(_, _)
ToIntUpTo(s, i) == IF i = 0 THEN 0 ELSE 10 * ToIntUpTo(s, i - 1) + DigitVal[CharAt(s, i)]
ToInt(s) == ToIntUpTo(s, Len(s))

\* s.split(sep), from character i on, field begun at character b
RECURSIVE SplitFrom(_, _, _, _)
SplitFrom(s, sep, b, i) ==
    IF i > Len(s) THEN <<SubSeq(s, b, Len(s))>>
    ELSE IF CharAt(s, i) = sep
         THEN <<SubSeq(s, b, i - 1)>> \o SplitFrom(s, sep, i + 1, i + 1)
         ELSE SplitFrom(s, sep, b, i + 1)
Split(s, sep) == SplitFrom(s, sep, 1, 1)

\* zero-padded decimal of n
Digits2(n) == CharAt(DIGITS, ((n \div 10) % 10) + 1) \o CharAt(DIGITS, (n % 10) + 1)
Digits4(n) == Digits2(n \div 100) \o Digits2(n % 100)

IsLeap(y) == ((y % 4) = 0 /\ (y % 100) # 0) \/ (y % 400) = 0
DaysInMonth(y, m) ==
    IF m = 2 THEN (IF IsLeap(y) THEN 29 ELSE 28)
    ELSE IF m \in {4, 6, 9, 11} THEN 30 ELSE 31

\* the days pd.Timestamp can hold at 00:00, written yyyymmdd, and the whole days
\* pd.Timedelta can hold
TS_MIN == 16770922
TS_MAX == 22620411
TD_MAX_DAYS == 106751

\* the date `days` days after 1970-01-01, written yyyymmdd (proleptic Gregorian)
CivilFromDays(days) ==
    LET z == days + 719468
        era == z \div 146097
        doe == z - era * 146097
        yoe == (doe - doe \div 1460 + doe \div 36524 - doe \div 146096) \div 365
        doy == doe - (365 * yoe + yoe \div 4 - yoe \div 100)
        mp == (5 * doy + 2) \div 153
        d == doy - (153 * mp + 2) \div 5 + 1
        m == IF mp < 10 THEN mp + 3 ELSE mp - 9
        y == yoe + era * 400 + (IF m <= 2 THEN 1 ELSE 0)
    IN y * 10000 + m * 100 + d

\* 1899-12-30 is 25569 days before 1970-01-01
EXCEL_EPOCH == -25569

\* int(val): towards zero
IntOf(tenths) == IF tenths >= 0 THEN tenths \div 10 ELSE -((-tenths) \div 10)

\* the six formats tried, in order: separator and the order of the fields
FORMATS ==
    << [sep |-> "-", fields |-> <<"Y", "m", "d">>],
       [sep |-> "/", fields |-> <<"d", "m", "Y">>],
       [sep |-> "-", fields |-> <<"d", "m", "Y">>],
       [sep |-> "/", fields |-> <<"Y", "m", "d">>],
       [sep |-> "/", fields |-> <<"m", "d", "Y">>],
       [sep |-> ".", fields |-> <<"d", "m", "Y">>] >>

\* what %Y, %m, %d accept: four digits; one or two digits worth 1..12; 1..31
FieldMatches(directive, f) ==
    /\ IsDigits(f)
    /\ IF directive = "Y" THEN Len(f) = 4
       ELSE /\ Len(f) \in {1, 2}
            /\ ToInt(f) >= 1
            /\ ToInt(f) <= (IF directive = "m" THEN 12 ELSE 31)

FieldOf(fmt, parts, directive) ==
    ToInt(parts[CHOOSE i \in 1..3 : fmt.fields[i] = directive])

\* datetime.strptime(s, fmt): the date written yyyymmdd, or 0 when it raises
StrptimeDate(s, fmt) ==
    LET parts == Split(s, fmt.sep) IN
    IF Len(parts) # 3 \/ \E i \in 1..3 : ~FieldMatches(fmt.fields[i], parts[i]) THEN 0
    ELSE LET y == FieldOf(fmt, parts, "Y")
             m == FieldOf(fmt, parts, "m")
             d == FieldOf(fmt, parts, "d")
         IN IF y < 1 \/ d > DaysInMonth(y, m) THEN 0
            ELSE y * 10000 + m * 100 + d

\* pd.to_datetime(datetime.strptime(s, fmt)): 0 also when the date is one a Timestamp
\* cannot hold and to_datetime raises
Strptime(s, fmt) ==
    IF StrptimeDate(s, fmt) < TS_MIN \/ StrptimeDate(s, fmt) > TS_MAX THEN 0
    ELSE StrptimeDate(s, fmt)

\* the first format of FORMATS[i..] that gives a date, 0 when none does
RECURSIVE FirstFormat(_, _)
FirstFormat(s, i) ==
    IF i > Len(FORMATS) THEN 0
    ELSE IF Strptime(s, FORMATS[i]) # 0 THEN Strptime(s, FORMATS[i])
    ELSE FirstFormat(s, i + 1)

\* decimal of n >= 0
RECURSIVE NatStr(_)
NatStr(n) == IF n < 10 THEN CharAt(DIGITS, n + 1) ELSE NatStr(n \div 10) \o CharAt(DIGITS, (n % 10) + 1)

\* str(val) of a cell; a number is written as a float is, 1.9 or -3.0
StrOf(cell) ==
    IF cell.kind = "str" THEN cell.s
    ELSE LET a == IF cell.n < 0 THEN -cell.n ELSE cell.n
         IN (IF cell.n < 0 THEN "-" ELSE "") \o NatStr(a \div 10) \o "." \o NatStr(a % 10)

\* pd.to_datetime("1899-12-30") + pd.to_timedelta(int(val), unit="D"): the date
\* written yyyymmdd, or 0 when the Timedelta or the sum is out of bounds and raises
SerialDate(tenths) ==
    LET days == IntOf(tenths)
        ymd == CivilFromDays(EXCEL_EPOCH + days)
    IN IF days > TD_MAX_DAYS \/ days < -TD_MAX_DAYS THEN 0
       ELSE IF ymd < TS_MIN \/ ymd > TS_MAX THEN 0
       ELSE ymd

\* strs the general parser is known to reject
NOT_DATES == {"", "not a date"}

\* days standing for whatever date the general parser may read out of a str
ANY_DAYS == {20240315, 19700101}

\* pd.to_datetime(val, dayfirst=True, errors="coerce").  A number is taken as
\* nanoseconds since 1970-01-01, and every number here is less than one day of them.
\* What the parser makes of a str is not in this repository: NaT for the strs known to
\* be rejected, otherwise NaT or some date.
LenientParse(cell) ==
    IF cell.kind = "num" THEN {Day(CivilFromDays(IF cell.n >= 0 THEN 0 ELSE -1))}
    ELSE IF cell.s \in NOT_DATES THEN {NaT}
    ELSE {NaT} \cup {Day(d) : d \in ANY_DAYS}

\* parse_date(val): the values it may return (None is written NaT)
ParseDate(cell) ==
    IF cell.kind = "na" THEN {NaT}
    ELSE IF cell.kind = "num" /\ SerialDate(cell.n) # 0 THEN {Day(SerialDate(cell.n))}
    ELSE IF FirstFormat(Strip(StrOf(cell)), 1) # 0
         THEN {Day(FirstFormat(Strip(StrOf(cell)), 1))}
         ELSE LenientParse(cell)

\* format_date_dmy(ts): strftime("%d/%m/%Y"), "" for None and NaT
FormatDateDmy(ts) ==
    IF ts.na THEN ""
    ELSE Digits2(ts.day % 100) \o "/" \o Digits2((ts.day \div 100) % 100) \o "/"
         \o Digits4(ts.day \div 10000)

\* rows of df that P keeps, in the order of df
NotNullRows(df) == SelectSeq(df, LAMBDA r : ~r.TS.na)
NullRows(df) == SelectSeq(df, LAMBDA r : r.TS.na)

\* the orders a sort of df by _FECHA_TS may leave it in: ascending as asked, rows of
\* equal _FECHA_TS in either order (the default kind, quicksort, is not a stable sort)
SortedOrders(df, ascending) ==
    {p \in Permutations(1..Len(df)) :
        \A i, j \in 1..Len(df) :
            i < j => IF ascending THEN df[p[i]].TS.day <= df[p[j]].TS.day
                                  ELSE df[p[i]].TS.day >= df[p[j]].TS.day}

\* a descending sort written as the reverse of the ascending one: NaT first
SortValues_ReverseForDescending(df, ascending) ==
    LET nn == NotNullRows(df)
        asc == {[i \in 1..Len(nn) |-> nn[p[i]]] \o NullRows(df) : p \in SortedOrders(nn, TRUE)}
    IN IF ascending THEN asc
       ELSE {[i \in 1..Len(s) |-> s[Len(s) + 1 - i]] : s \in asc}

\* df.sort_values("_FECHA_TS", ascending=ascending, na_position="last"): the rows with
\* a date sorted, then the rows without one as they stood
SortValues(df, ascending) ==
    LET nn == NotNullRows(df)
    IN {[i \in 1..Len(nn) |-> nn[p[i]]] \o NullRows(df) : p \in SortedOrders(nn, ascending)}

\* group keys compare as str, NaN after them all
KeyLess(a, b) == ~IsNa(a) /\ (IsNa(b) \/ StrLess(a.s, b.s))

\* the keys of df.groupby(group_field, dropna=False), in the order it yields them
RECURSIVE SortedKeys(_)
SortedKeys(keys) ==
    IF keys = {} THEN <<>>
    ELSE LET k == CHOOSE x \in keys : \A y \in keys \ {x} : KeyLess(x, y)
         IN <<k>> \o SortedKeys(keys \ {k})

GroupKeysOf(df) == SortedKeys({df[i].GRP : i \in 1..Len(df)})

\* gdf: the rows of one group, in the order of df
GroupFrame(df, grp) == SelectSeq(df, LAMBDA r : r.GRP = grp)

GrpName(grp) == IF IsNa(grp) THEN "(Sin grupo)" ELSE grp.s

\* _rows_from_group(gdf)
RowsFromGroup(gdf) ==
    [i \in 1..Len(gdf) |->
        << Text(CellValue(gdf[i].MESA)), Text(CellValue(gdf[i].NIVEL)),
           Text(CellValue(gdf[i].FECHA_FMT)), Text(CellValue(gdf[i].DATO)) >>]

\* placeholders_per_group: None (<<>>) or a dict, as a function on its keys
PlaceholdersFor(per_group, grp_name) ==
    IF per_group # <<>> /\ grp_name \in DOMAIN per_group THEN per_group[grp_name] ELSE <<>>

FileName(grp_name) == "CARTA_" \o Slugify(grp_name) \o ".docx"

\* the orders sort_values("Grupo") may leave the summary in
SortedSummaries(summary) ==
    {[i \in 1..Len(summary) |-> summary[p[i]]] : p \in
        {q \in Permutations(1..Len(summary)) :
            \A i, j \in 1..Len(summary) :
                i < j => ~StrLess(summary[q[j]].Grupo, summary[q[i]].Grupo)}}

(***************************************************************************)
(* Inputs                                                                  *)
(***************************************************************************)

\* sequences over S of length 0..n
SeqsUpTo(S, n) == UNION {[1..k -> S] : k \in 0..n}

\* rows handed to build_letter_bytes / fill_table: two values, the second None; five
\* values; a value XML cannot carry
R_SHORT == <<Text("Mesa 2"), NA>>
R_LONG == <<Text("Mesa 3"), Text("Alto"), Text("01/03/2024"), Text("{{DEST}}"), Text("extra")>>
R_BAD == <<Text("Mesa 4"), Text("Bajo"), Text(""), Text("dato\f")>>
RowKinds == {R_SHORT, R_LONG, R_BAD}

BODY_PARAGRAPHS == << <<"Se~or(a) ", "{{DE", "ST}}">>, <<"Cordial saludo.">> >>

PlaceholderKinds == { <<>>, <<[k |-> "DEST", v |-> "Ana"]>> }

\* paragraphs: a token split over two runs, whole tokens among text, an unknown token,
\* no token, no run, braces split from the key
ParaKinds ==
    { <<"{{NA", "ME}}">>,
      <<"Sr. ", "{{NAME}}", ", {{CARGO}}">>,
      <<"Ref. ", "{{X}}">>,
      <<"Cordial ", "saludo">>,
      <<>>,
      <<"{", "{CARGO}", "}">>,
      <<"{{NAME", "}} {{X}}">> }

\* placeholder dicts, as their items in insertion order
MappingKinds ==
    { <<>>,
      <<[k |-> "NAME", v |-> "Alice"]>>,
      <<[k |-> "NAME", v |-> ""], [k |-> "CARGO", v |-> "Jefe"]>>,
      <<[k |-> "CARGO", v |-> "{{NAME}}"], [k |-> "NAME", v |-> "Alice"]>>,
      <<[k |-> "NAME", v |-> "Alice"], [k |-> "CARGO", v |-> "{{NAME}}"]>> }

\* column names of the spreadsheet
HeaderKinds ==
    { "ACTOR", " Responsable ", "Fecha L!mite", "FECHA", "D!a", "Mesa de  trabajo", "Tema",
      "C*digo" }

\* the dataset: group keys (a missing one, one that reads like the name given to the
\* missing one, one that differs from it by punctuation only) and dates with their
\* display text
GroupKeys == {NA, Text("(Sin grupo)"), Text("Sin grupo")}
DateKinds == { [TS |-> NaT, FECHA_FMT |-> Text("")],
               [TS |-> Day(20240101), FECHA_FMT |-> Text("01/01/2024")],
               [TS |-> Day(20240301), FECHA_FMT |-> Text("01/03/2024")] }

DataRows ==
    {[GRP |-> g, TS |-> d.TS, MESA |-> Text("Mesa"), NIVEL |-> NA,
      FECHA_FMT |-> d.FECHA_FMT, DATO |-> Text("dato")] : g \in GroupKeys, d \in DateKinds}

\* a DataFrame with its RangeIndex: row i carries idx = i
WithIndex(data) ==
    [i \in 1..Len(data) |->
        [idx |-> i, GRP |-> data[i].GRP, TS |-> data[i].TS, MESA |-> data[i].MESA,
         NIVEL |-> data[i].NIVEL, FECHA_FMT |-> data[i].FECHA_FMT, DATO |-> data[i].DATO]]

\* templates: one with the expected table, one without a four-column table
GenTemplates ==
    { [paragraphs |-> BODY_PARAGRAPHS, tables |-> <<T_PLAIN3, T_MATCH4>>],
      [paragraphs |-> BODY_PARAGRAPHS, tables |-> <<T_PLAIN3>>] }

PlaceholdersPerGroupKinds == { ("(Sin grupo)" :> <<[k |-> "DEST", v |-> "Ana"]>>) }

MaxDataRows == 3
MaxTables == 2
MaxFillRows == 2
MaxPopulate == 2
MaxParas == 2
MaxHeaders == 3

VARIABLES
    \* generate_letters_per_group
    g_pc, work_in, template_bytes, placeholders_per_group, newest_first,
    work_df, todo, gdf, outputs, errors, summary_rows, index_df,
    \* build_letter_bytes
    b_pc, template, rows, placeholders, table_index, doc, table, b_out, b_err,
    \* populate called again on one table
    p_pc, p_template, p_table, p_rows, p_calls, p_first,
    \* _replace_placeholders_runsafe
    s_pc, s_doc, s_orig, s_mapping,
    \* guess_mapping
    m_pc, columns, mapping,
    \* cli.main
    c_pc, c_columns, c_nrows, c_group, c_actors, c_template, c_mapping, c_work,
    c_called, c_outputs, c_errors, c_files, c_err,
    \* parse_date, format_date_dmy
    d_pc, d_val, d_ts, d_text

buildVars == <<b_pc, template, rows, placeholders, table_index, doc, table, b_out, b_err>>
popVars == <<p_pc, p_template, p_table, p_rows, p_calls, p_first>>
substVars == <<s_pc, s_doc, s_orig, s_mapping>>
mapVars == <<m_pc, columns, mapping>>
genVars == <<g_pc, work_in, template_bytes, placeholders_per_group, newest_first,
             work_df, todo, gdf, outputs, errors, summary_rows, index_df>>
cliVars == <<c_pc, c_columns, c_nrows, c_group, c_actors, c_template, c_mapping, c_work,
             c_called, c_outputs, c_errors, c_files, c_err>>
dateVars == <<d_pc, d_val, d_ts, d_text>>
vars == <<genVars, buildVars, popVars, substVars, mapVars, cliVars, dateVars>>

EMPTY_DOC == [paragraphs |-> <<>>, tables |-> <<>>]

\* no DataFrame yet
NO_WORK == [grupo |-> FALSE, rows |-> <<>>]

\* a template path that cannot be opened
NO_FILE == [exists |-> FALSE, doc |-> EMPTY_DOC]

\* an empty dict
EmptyDict == [x \in {} |-> <<>>]

GenIdle ==
    /\ g_pc = "idle" /\ work_in = <<>> /\ template_bytes = EMPTY_DOC
    /\ placeholders_per_group = <<>> /\ newest_first = TRUE /\ work_df = <<>>
    /\ todo = <<>> /\ gdf = <<>> /\ outputs = EmptyDict /\ errors = EmptyDict
    /\ summary_rows = <<>> /\ index_df = <<>>
BuildIdle ==
    /\ b_pc = "idle" /\ template = EMPTY_DOC /\ rows = <<>> /\ placeholders = <<>>
    /\ table_index = NoIndex /\ doc = EMPTY_DOC /\ table = 0 /\ b_out = EMPTY_DOC /\ b_err = ""
PopIdle ==
    /\ p_pc = "idle" /\ p_template = T_EMPTY4 /\ p_table = T_EMPTY4 /\ p_rows = <<>> /\ p_calls = 0 /\ p_first = T_EMPTY4
SubstIdle ==
    /\ s_pc = "idle" /\ s_doc = EMPTY_DOC /\ s_orig = EMPTY_DOC /\ s_mapping = <<>>
MapIdle ==
    /\ m_pc = "idle" /\ columns = <<>> /\ mapping = [role \in RoleSet |-> NA]
CliIdle ==
    /\ c_pc = "idle" /\ c_columns = <<>> /\ c_nrows = 0 /\ c_group = "ACTOR" /\ c_actors = NA
    /\ c_template = NO_FILE /\ c_mapping = [role \in RoleSet |-> NA] /\ c_work = NO_WORK
    /\ c_called = FALSE /\ c_outputs = {} /\ c_errors = {} /\ c_files = {} /\ c_err = ""
DateIdle ==
    /\ d_pc = "idle" /\ d_val = NullCell /\ d_ts = NaT /\ d_text = ""

(***************************************************************************)
(* generate_letters_per_group, the sort, then one turn of the loop at a    *)
(* time, then the index                                                    *)
(***************************************************************************)

GenInit ==
    /\ g_pc = "sort"
    /\ work_in \in {WithIndex(data) : data \in SeqsUpTo(DataRows, MaxDataRows)}
    /\ template_bytes \in GenTemplates
    /\ placeholders_per_group \in PlaceholdersPerGroupKinds
    /\ newest_first \in BOOLEAN
    /\ work_df = <<>> /\ todo = <<>> /\ gdf = <<>>
    /\ outputs = EmptyDict /\ errors = EmptyDict
    /\ summary_rows = <<>> /\ index_df = <<>>
    /\ BuildIdle /\ PopIdle /\ SubstIdle /\ MapIdle /\ CliIdle /\ DateIdle

\* work_df = work_df.sort_values(...); the groupby starts
GenSort ==
    /\ g_pc = "sort"
    /\ work_df' \in SortValues(work_in, ~newest_first)
    /\ todo' = GroupKeysOf(work_df')
    /\ g_pc' = "groups"
    /\ UNCHANGED <<work_in, template_bytes, placeholders_per_group, newest_first,
                   gdf, outputs, errors, summary_rows, index_df>>
    /\ UNCHANGED <<buildVars, popVars, substVars, mapVars, cliVars, dateVars>>

\* one turn of `for grp, gdf in work_df.groupby(...)`
GenGroup ==
    /\ g_pc = "groups"
    /\ todo # <<>>
    /\ LET grp == Head(todo)
           grp_name == GrpName(grp)
           frame == GroupFrame(work_df, grp)
           filas == RowsFromGroup(frame)
           built == BuildLetterBytes(template_bytes, filas,
                                     PlaceholdersFor(placeholders_per_group, grp_name),
                                     NoIndex)
       IN /\ gdf' = frame
          /\ IF built.ok
             THEN /\ outputs' = (FileName(grp_name) :> built.doc) @@ outputs
                  /\ summary_rows' = Append(summary_rows,
                                            [Grupo |-> grp_name, Registros |-> Len(filas)])
                  /\ errors' = errors
             ELSE /\ errors' = (grp_name :> built.err) @@ errors
                  /\ UNCHANGED <<outputs, summary_rows>>
    /\ todo' = Tail(todo)
    /\ UNCHANGED <<g_pc, work_in, template_bytes, placeholders_per_group, newest_first,
                   work_df, index_df>>
    /\ UNCHANGED <<buildVars, popVars, substVars, mapVars, cliVars, dateVars>>

\* index_df = pd.DataFrame(summary_rows, ...).sort_values("Grupo"); return
GenIndex ==
    /\ g_pc = "groups"
    /\ todo = <<>>
    /\ index_df' \in SortedSummaries(summary_rows)
    /\ g_pc' = "done"
    /\ UNCHANGED <<work_in, template_bytes, placeholders_per_group, newest_first,
                   work_df, todo, gdf, outputs, errors, summary_rows>>
    /\ UNCHANGED <<buildVars, popVars, substVars, mapVars, cliVars, dateVars>>

GenNext == GenSort \/ GenGroup \/ GenIndex

SpecGenerate == GenInit /\ [][GenNext]_vars

(***************************************************************************)
(* build_letter_bytes, statement by statement                              *)
(***************************************************************************)

BuildInit ==
    /\ b_pc = "locate"
    /\ template \in {[paragraphs |-> BODY_PARAGRAPHS, tables |-> ts] :
                        ts \in SeqsUpTo(TableKinds, MaxTables)}
    /\ rows \in SeqsUpTo(RowKinds, MaxFillRows)
    /\ placeholders \in PlaceholderKinds
    /\ table_index \in {NoIndex} \cup {Index(i) : i \in -1..MaxTables}
    /\ doc = EMPTY_DOC /\ table = 0 /\ b_out = EMPTY_DOC /\ b_err = ""
    /\ GenIdle /\ PopIdle /\ SubstIdle /\ MapIdle /\ CliIdle /\ DateIdle

\* doc = Document(...); table = find_target_table(...); if table is None: raise
BuildLocate ==
    /\ b_pc = "locate"
    /\ doc' = template
    /\ table' = FindTargetTable(template, table_index)
    /\ IF table' = 0
       THEN b_pc' = "raised" /\ b_err' = NO_TABLE_MSG
       ELSE b_pc' = "clear" /\ b_err' = b_err
    /\ UNCHANGED <<template, rows, placeholders, table_index, b_out>>
    /\ UNCHANGED <<genVars, popVars, substVars, mapVars, cliVars, dateVars>>

\* clear_table_keep_header(table)
BuildClear ==
    /\ b_pc = "clear"
    /\ doc' = [doc EXCEPT !.tables[table] = ClearTableKeepHeader(@)]
    /\ b_pc' = "fill"
    /\ UNCHANGED <<template, rows, placeholders, table_index, table, b_out, b_err>>
    /\ UNCHANGED <<genVars, popVars, substVars, mapVars, cliVars, dateVars>>

\* fill_table(table, rows)
BuildFill ==
    /\ b_pc = "fill"
    /\ LET filled == FillTable(doc.tables[table], rows) IN
        /\ doc' = [doc EXCEPT !.tables[table] = filled.table]
        /\ IF filled.ok
           THEN b_pc' = "placeholders" /\ b_err' = b_err
           ELSE b_pc' = "raised" /\ b_err' = filled.err
    /\ UNCHANGED <<template, rows, placeholders, table_index, table, b_out>>
    /\ UNCHANGED <<genVars, popVars, substVars, mapVars, cliVars, dateVars>>

\* if placeholders: _replace_placeholders_runsafe(doc, placeholders, normalize_runs=True)
BuildPlaceholders ==
    /\ b_pc = "placeholders"
    /\ doc' = IF placeholders # <<>>
              THEN ReplacePlaceholdersRunsafe(doc, placeholders, TRUE)
              ELSE doc
    /\ b_pc' = "save"
    /\ UNCHANGED <<template, rows, placeholders, table_index, table, b_out, b_err>>
    /\ UNCHANGED <<genVars, popVars, substVars, mapVars, cliVars, dateVars>>

\* doc.save(out); return out.getvalue()
BuildSave ==
    /\ b_pc = "save"
    /\ b_out' = doc
    /\ b_pc' = "done"
    /\ UNCHANGED <<template, rows, placeholders, table_index, doc, table, b_err>>
    /\ UNCHANGED <<genVars, popVars, substVars, mapVars, cliVars, dateVars>>

BuildNext == BuildLocate \/ BuildClear \/ BuildFill \/ BuildPlaceholders \/ BuildSave

SpecBuild == BuildInit /\ [][BuildNext]_vars

(***************************************************************************)
(* clear_table_keep_header + fill_table, called again on the same table    *)
(***************************************************************************)

PopInit ==
    /\ p_pc = "clear"
    /\ p_template \in TableKinds
    /\ p_table = p_template
    /\ p_rows \in SeqsUpTo(RowKinds, MaxFillRows)
    /\ p_calls = 0
    /\ p_first = T_EMPTY4
    /\ GenIdle /\ BuildIdle /\ SubstIdle /\ MapIdle /\ CliIdle /\ DateIdle

PopClear ==
    /\ p_pc = "clear"
    /\ p_calls < MaxPopulate
    /\ p_table' = ClearTableKeepHeader(p_table)
    /\ p_pc' = "fill"
    /\ UNCHANGED <<p_template, p_rows, p_calls, p_first>>
    /\ UNCHANGED <<genVars, buildVars, substVars, mapVars, cliVars, dateVars>>

PopFill ==
    /\ p_pc = "fill"
    /\ LET filled == FillTable(p_table, p_rows) IN
        /\ p_table' = filled.table
        /\ IF filled.ok
           THEN /\ p_pc' = "clear"
                /\ p_calls' = p_calls + 1
                /\ p_first' = IF p_calls = 0 THEN filled.table ELSE p_first
           ELSE /\ p_pc' = "raised"
                /\ UNCHANGED <<p_calls, p_first>>
    /\ UNCHANGED <<p_template, p_rows>>
    /\ UNCHANGED <<genVars, buildVars, substVars, mapVars, cliVars, dateVars>>

PopNext == PopClear \/ PopFill

SpecPopulate == PopInit /\ [][PopNext]_vars

(***************************************************************************)
(* _replace_placeholders_runsafe on a document                             *)
(***************************************************************************)

\* body paragraphs ps, and one table whose single row holds the same paragraphs as cells
DocOf(ps) ==
    [paragraphs |-> ps,
     tables |-> IF ps = <<>> THEN <<>> ELSE <<[ncols |-> Len(ps), rows |-> <<ps>>]>>]

SubstInit ==
    /\ s_pc = "start"
    /\ s_doc \in {DocOf(ps) : ps \in SeqsUpTo(ParaKinds, MaxParas)}
    /\ s_orig = s_doc
    /\ s_mapping \in MappingKinds
    /\ GenIdle /\ BuildIdle /\ PopIdle /\ MapIdle /\ CliIdle /\ DateIdle

Substitute ==
    /\ s_pc = "start"
    /\ s_doc' = ReplacePlaceholdersRunsafe(s_doc, s_mapping, TRUE)
    /\ s_pc' = "done"
    /\ UNCHANGED <<s_orig, s_mapping>>
    /\ UNCHANGED <<genVars, buildVars, popVars, mapVars, cliVars, dateVars>>

SubstNext == Substitute

SpecSubstitute == SubstInit /\ [][SubstNext]_vars

(***************************************************************************)
(* guess_mapping on the columns of a dataset                               *)
(***************************************************************************)

MapInit ==
    /\ m_pc = "start"
    /\ columns \in SeqsUpTo(HeaderKinds, MaxHeaders)
    /\ mapping = [role \in RoleSet |-> NA]
    /\ GenIdle /\ BuildIdle /\ PopIdle /\ SubstIdle /\ CliIdle /\ DateIdle

MapColumns ==
    /\ m_pc = "start"
    /\ mapping' = GuessMapping(columns)
    /\ m_pc' = "done"
    /\ UNCHANGED columns
    /\ UNCHANGED <<genVars, buildVars, popVars, substVars, cliVars, dateVars>>

MapNext == MapColumns

SpecMapColumns == MapInit /\ [][MapNext]_vars

(***************************************************************************)
(* cli.py: main, from the DataFrame read to the files written.  The sheet  *)
(* is its column names and the number of its rows; a cell holds what its   *)
(* column holds in that row.                                               *)
(***************************************************************************)

\* the columns a sheet may have, and their cells by row
SHEET_COLUMNS == <<"ACTOR", "Mesa", "Nivel", "Fecha", "Dato", "Dependencia">>
SHEET_CELLS ==
    [c \in {SHEET_COLUMNS[i] : i \in 1..Len(SHEET_COLUMNS)} |->
        CASE c = "ACTOR" -> <<"Ana", "Luis">>
          [] c = "Mesa" -> <<"Mesa 1", "Mesa 2">>
          [] c = "Nivel" -> <<"Alto", "Medio">>
          [] c = "Fecha" -> <<"15/03/2024", "2024-01-01">>
          [] c = "Dato" -> <<"dato 1", "dato 2">>
          [] OTHER -> <<"Salud", "Salud">>]

\* the sheets: SHEET_COLUMNS with any of them left out
RECURSIVE SubSeqsOf(_)
SubSeqsOf(seq) ==
    IF seq = <<>> THEN {<<>>}
    ELSE LET rest == SubSeqsOf(Tail(seq))
         IN rest \cup {<<Head(seq)>> \o r : r \in rest}
Sheets == SubSeqsOf(SHEET_COLUMNS)

\* --group, --actors, --template
GroupArgs == {"ACTOR", "Dependencia", "Sede"}
ActorsArgs == {NA, Text("Ana; ;Pedro")}
TemplateFiles == {NO_FILE} \cup {[exists |-> TRUE, doc |-> t] : t \in GenTemplates}
MaxSheetRows == 2

REQUIRED == <<"actor", "mesa", "nivel", "fecha", "dato">>
INDEX_FILE == "indice_cartas.xlsx"

\* bool(mapping.get(k))
Truthy(v) == ~IsNa(v) /\ v.s # ""

\* lines 25-27: guess_mapping(df), then --group written over mapping["grupo"]
MappingOfRun(cols, group) ==
    IF group # "ACTOR" THEN [GuessMapping(cols) EXCEPT !["grupo"] = Text(group)]
    ELSE GuessMapping(cols)

\* prepare_dataframe: the check of the five required keys
RequiredPresent(cols, m) ==
    \A i \in 1..Len(REQUIRED) : ~IsNa(m[REQUIRED[i]]) /\ InList(m[REQUIRED[i]].s, cols)

\* prepare_dataframe: cols, the columns taken from df
SelectedColumns(m) ==
    <<m["actor"].s>> \o (IF Truthy(m["grupo"]) THEN <<m["grupo"].s>> ELSE <<>>)
        \o <<m["mesa"].s, m["nivel"].s, m["fecha"].s, m["dato"].s>>

\* df[cols] taking the columns it finds and leaving out the others
SelectionOk_IgnoreMissing(cols, m) == TRUE

\* df[cols]: raises KeyError when a name of cols is not a column of df
SelectionOk(cols, m) ==
    \A i \in 1..Len(SelectedColumns(m)) : InList(SelectedColumns(m)[i], cols)

\* the cell of column c in row i (the rows repeat the two of SHEET_CELLS); a column the
\* sheet lacks has no cell
CellAt(cols, c, i) ==
    IF InList(c, cols) THEN Text(SHEET_CELLS[c][((i - 1) % 2) + 1]) ELSE NA

\* the frames prepare_dataframe may return for a sheet of n rows
PrepareDataframe(cols, n, m) ==
    LET dates == [i \in 1..n |-> ParseDate(StrCell(CellAt(cols, m["fecha"].s, i).s))]
    IN { [grupo |-> Truthy(m["grupo"]),
          rows |-> [i \in 1..n |->
                      [idx |-> i,
                       ACTOR |-> CellAt(cols, m["actor"].s, i),
                       GRUPO |-> IF Truthy(m["grupo"]) THEN CellAt(cols, m["grupo"].s, i) ELSE NA,
                       MESA |-> CellAt(cols, m["mesa"].s, i),
                       NIVEL |-> CellAt(cols, m["nivel"].s, i),
                       FECHA |-> CellAt(cols, m["fecha"].s, i),
                       DATO |-> CellAt(cols, m["dato"].s, i),
                       TS |-> ts[i],
                       FECHA_FMT |-> Text(FormatDateDmy(ts[i]))]]]
        : ts \in {t \in [1..n -> UNION {dates[i] : i \in 1..n}] :
                      \A i \in 1..n : t[i] \in dates[i]} }

\* lines 32-34: the rows whose ACTOR is one of --actors
AllowedActors(actors) ==
    {Strip(x) : x \in {Split(actors.s, ";")[i] : i \in 1..Len(Split(actors.s, ";"))}} \ {""}
FilterActors(work, actors) ==
    IF ~Truthy(actors) THEN work
    ELSE [work EXCEPT !.rows = SelectSeq(work.rows,
                                LAMBDA r : CellValue(r.ACTOR) \in AllowedActors(actors))]

\* line 40: the column the rows are grouped by
GroupField(work, group) == IF work.grupo /\ group # "ACTOR" THEN "GRUPO" ELSE "ACTOR"

\* the rows as generate_letters_per_group reads them, GRP the group field
GroupedBy(work, field) ==
    [i \in 1..Len(work.rows) |->
        [idx |-> work.rows[i].idx,
         GRP |-> IF field = "GRUPO" THEN work.rows[i].GRUPO ELSE work.rows[i].ACTOR,
         TS |-> work.rows[i].TS, MESA |-> work.rows[i].MESA, NIVEL |-> work.rows[i].NIVEL,
         FECHA_FMT |-> work.rows[i].FECHA_FMT, DATO |-> work.rows[i].DATO]]

\* generate_letters_per_group(work, tpl, ...): the groups built and the groups that
\* failed, by name; whether a group builds does not depend on the order of its rows
GroupBuilds(df, tpl, g) ==
    BuildLetterBytes(tpl, RowsFromGroup(GroupFrame(df, g)), <<>>, NoIndex).ok
BuiltNames(df, tpl) ==
    {GrpName(g) : g \in {x \in {df[i].GRP : i \in 1..Len(df)} : GroupBuilds(df, tpl, x)}}
FailedNames(df, tpl) ==
    {GrpName(g) : g \in {x \in {df[i].GRP : i \in 1..Len(df)} : ~GroupBuilds(df, tpl, x)}}

MainInit ==
    /\ c_pc = "start"
    /\ c_columns \in Sheets
    /\ c_nrows \in 0..MaxSheetRows
    /\ c_group \in GroupArgs
    /\ c_actors \in ActorsArgs
    /\ c_template \in TemplateFiles
    /\ c_mapping = [role \in RoleSet |-> NA] /\ c_work = NO_WORK
    /\ c_called = FALSE /\ c_outputs = {} /\ c_errors = {} /\ c_files = {} /\ c_err = ""
    /\ GenIdle /\ BuildIdle /\ PopIdle /\ SubstIdle /\ MapIdle /\ DateIdle

\* lines 25-29: the mapping, and SystemExit when a required role has no column
MainMap ==
    /\ c_pc = "start"
    /\ c_mapping' = MappingOfRun(c_columns, c_group)
    /\ IF \A i \in 1..Len(REQUIRED) : Truthy(c_mapping'[REQUIRED[i]])
       THEN c_pc' = "mapped" /\ c_err' = c_err
       ELSE c_pc' = "failed" /\ c_err' = "SystemExit"
    /\ UNCHANGED <<c_columns, c_nrows, c_group, c_actors, c_template, c_work, c_called,
                   c_outputs, c_errors, c_files>>
    /\ UNCHANGED <<genVars, buildVars, popVars, substVars, mapVars, dateVars>>

\* line 31: prepare_dataframe(df, mapping)
MainPrepare ==
    /\ c_pc = "mapped"
    /\ IF ~RequiredPresent(c_columns, c_mapping)
       THEN c_pc' = "failed" /\ c_err' = "ValueError" /\ c_work' = c_work
       ELSE IF ~SelectionOk(c_columns, c_mapping)
       THEN c_pc' = "failed" /\ c_err' = "KeyError" /\ c_work' = c_work
       ELSE /\ c_work' \in PrepareDataframe(c_columns, c_nrows, c_mapping)
            /\ c_pc' = "prepared" /\ c_err' = c_err
    /\ UNCHANGED <<c_columns, c_nrows, c_group, c_actors, c_template, c_mapping, c_called,
                   c_outputs, c_errors, c_files>>
    /\ UNCHANGED <<genVars, buildVars, popVars, substVars, mapVars, dateVars>>

\* lines 32-44: the filter, the template read, generate_letters_per_group
MainGenerate ==
    /\ c_pc = "prepared"
    /\ c_work' = FilterActors(c_work, c_actors)
    /\ IF ~c_template.exists
       THEN /\ c_pc' = "failed" /\ c_err' = "FileNotFoundError"
            /\ UNCHANGED <<c_called, c_outputs, c_errors>>
       ELSE LET df == GroupedBy(c_work', GroupField(c_work', c_group)) IN
            /\ c_called' = TRUE
            /\ c_outputs' = {FileName(n) : n \in BuiltNames(df, c_template.doc)}
            /\ c_errors' = FailedNames(df, c_template.doc)
            /\ c_pc' = "generated" /\ c_err' = c_err
    /\ UNCHANGED <<c_columns, c_nrows, c_group, c_actors, c_template, c_mapping, c_files>>
    /\ UNCHANGED <<genVars, buildVars, popVars, substVars, mapVars, dateVars>>

\* lines 46-52: one file per output, then the index
MainWrite ==
    /\ c_pc = "generated"
    /\ c_files' = c_outputs \cup {INDEX_FILE}
    /\ c_pc' = "done"
    /\ UNCHANGED <<c_columns, c_nrows, c_group, c_actors, c_template, c_mapping, c_work,
                   c_called, c_outputs, c_errors, c_err>>
    /\ UNCHANGED <<genVars, buildVars, popVars, substVars, mapVars, dateVars>>

MainNext == MainMap \/ MainPrepare \/ MainGenerate \/ MainWrite

SpecMain == MainInit /\ [][MainNext]_vars

(***************************************************************************)
(* parse_date, then format_date_dmy, on one cell                           *)
(***************************************************************************)

\* numbers from -MaxTenths/10 to MaxTenths/10, and some far from zero: a serial of
\* today's dates, the last and first the Timedelta and the Timestamp can hold, the ones
\* next to them
MaxTenths == 25
SERIALS == {453660, 1067510, 1067520, 2000000, -811820, -811830, -900000}
DATE_STRINGS ==
    { "2024-03-15", "15/03/2024", "15-03-2024", "2024/03/15", "03/15/2024", "15.03.2024",
      "05/04/2024", "1/3/2024", " 15/03/2024 ", "29/02/2024", "29/02/2023", "31/04/2024",
      "13/13/2024", "12-11-2024", "2024-3-5", "2024-13-01", "15/03/24", "0000-01-01",
      "01/01/1500", "05/04/2262", "04/05/2262", "45000", "not a date", "" }
DateCells ==
    {NullCell} \cup {NumCell(t) : t \in (-MaxTenths..MaxTenths) \cup SERIALS}
        \cup {StrCell(x) : x \in DATE_STRINGS}

DateInit ==
    /\ d_pc = "start"
    /\ d_val \in DateCells
    /\ d_ts = NaT /\ d_text = ""
    /\ GenIdle /\ BuildIdle /\ PopIdle /\ SubstIdle /\ MapIdle /\ CliIdle

\* work["_FECHA_TS"] = work["FECHA"].apply(parse_date), one cell
DateParse ==
    /\ d_pc = "start"
    /\ d_ts' \in ParseDate(d_val)
    /\ d_pc' = "parsed"
    /\ UNCHANGED <<d_val, d_text>>
    /\ UNCHANGED <<genVars, buildVars, popVars, substVars, mapVars, cliVars>>

\* work["FECHA_FMT"] = work["_FECHA_TS"].apply(format_date_dmy), one cell
DateFormat ==
    /\ d_pc = "parsed"
    /\ d_text' = FormatDateDmy(d_ts)
    /\ d_pc' = "done"
    /\ UNCHANGED <<d_val, d_ts>>
    /\ UNCHANGED <<genVars, buildVars, popVars, substVars, mapVars, cliVars>>

DateNext == DateParse \/ DateFormat

SpecParseDate == DateInit /\ [][DateNext]_vars

(***************************************************************************)
(* Properties                                                              *)
(***************************************************************************)

\* the groups of the dataset, their names, and the rows of each
GroupsOf(df) == {df[i].GRP : i \in 1..Len(df)}
GroupNamesOf(df) == {GrpName(g) : g \in GroupsOf(df)}
RowCount(df, g) == Cardinality({i \in 1..Len(df) : df[i].GRP = g})

HasIndexEntry(g) ==
    \E i \in 1..Len(index_df) :
        /\ index_df[i].Grupo = GrpName(g)
        /\ index_df[i].Registros = RowCount(work_in, g)

\* C1: when generate_letters_per_group returns, every group has exactly one outcome,
\* an output document with an index entry {group, row count} or an entry in errors,
\* and the index entries and the error entries together are as many as the groups.
C1_OneOutcomePerGroup ==
    g_pc = "done" =>
        /\ \A g \in GroupsOf(work_in) :
              (HasIndexEntry(g) /\ FileName(GrpName(g)) \in DOMAIN outputs)
                  # (GrpName(g) \in DOMAIN errors)
        /\ Len(index_df) + Cardinality(DOMAIN errors) = Cardinality(GroupsOf(work_in))

\* C2: when the groups have distinct names and all of them were built, outputs holds
\* one document for each: as many entries as the index table has.
C2_OneDocumentPerGroup ==
    ( /\ g_pc = "done"
      /\ errors = EmptyDict
      /\ Cardinality(GroupNamesOf(work_in)) = Cardinality(GroupsOf(work_in)) )
        => Cardinality(DOMAIN outputs) = Len(index_df)

\* the _FECHA_TS of the rows of df, in order
DatesOf(df) == [i \in 1..Len(df) |-> df[i].TS]

\* C3: the sort that precedes the partition leaves the rows of the dataset, all of
\* them, with every row without a date after every row with one, and the rows with a
\* date descending when newest_first is true and ascending when it is false.
C3_SortedByDate ==
    g_pc # "sort" =>
        /\ Len(work_df) = Len(work_in)
        /\ {work_df[i] : i \in 1..Len(work_df)} = {work_in[i] : i \in 1..Len(work_in)}
        /\ \A i, j \in 1..Len(work_df) :
              i < j =>
                /\ work_df[i].TS.na => work_df[j].TS.na
                /\ (~work_df[i].TS.na /\ ~work_df[j].TS.na) =>
                      IF newest_first THEN work_df[i].TS.day >= work_df[j].TS.day
                                      ELSE work_df[i].TS.day <= work_df[j].TS.day

\* 2024-01-01, 2024-03-01, no date, newest first: 2024-03-01, 2024-01-01, no date
C3_Witness ==
    /\ g_pc # "sort"
    /\ newest_first
    /\ DatesOf(work_in) = <<Day(20240101), Day(20240301), NaT>>
    /\ DatesOf(work_df) = <<Day(20240301), Day(20240101), NaT>>

\* where the row of the dataset numbered idx stands in df
PositionIn(df, idx) == CHOOSE i \in 1..Len(df) : df[i].idx = idx

\* C4: the rows of a group reach build_letter_bytes in the order the sort left them
\* in, and those of equal _FECHA_TS (or both without one) in the order of the dataset.
C4_GroupKeepsOrder ==
    \A i, j \in 1..Len(gdf) :
        i < j =>
            /\ PositionIn(work_df, gdf[i].idx) < PositionIn(work_df, gdf[j].idx)
            /\ gdf[i].TS = gdf[j].TS => gdf[i].idx < gdf[j].idx

MinOf(S) == CHOOSE i \in S : \A j \in S : i <= j
MaxOf(S) == CHOOSE i \in S : \A j \in S : i >= j

MatchingTables(tables) == {j \in 1..Len(tables) : HeaderMatches(tables[j])}
FourColumnTables(tables) == {j \in 1..Len(tables) : tables[j].ncols = 4}
PreferredUsable(tables, pref) ==
    /\ ~pref.none
    /\ pref.i \in 0..(Len(tables) - 1)
    /\ tables[pref.i + 1].ncols = 4

\* C5: find_target_table returns the table at the preferred index when that index is
\* given, exists and has four columns; otherwise the first table whose header row
\* satisfies the four expected phrases; otherwise the last four-column table; None only
\* when the document has neither.
C5_LocateOrder ==
    b_pc \in {"clear", "fill", "placeholders", "save", "done", "raised"} =>
        LET ts == template.tables IN
        table = IF PreferredUsable(ts, table_index) THEN table_index.i + 1
                ELSE IF MatchingTables(ts) # {} THEN MinOf(MatchingTables(ts))
                ELSE IF FourColumnTables(ts) # {} THEN MaxOf(FourColumnTables(ts))
                ELSE 0

\* the fallback chose the last of several four-column tables, none matching by header
C5_Witness ==
    /\ b_pc = "clear"
    /\ ~PreferredUsable(template.tables, table_index)
    /\ MatchingTables(template.tables) = {}
    /\ Cardinality(FourColumnTables(template.tables)) >= 2
    /\ table = Len(template.tables)
    /\ table # MinOf(FourColumnTables(template.tables))

\* the texts a body row carries for input row r in a table of ncols columns
ExpectedRowTexts(r, ncols) ==
    [i \in 1..ncols |-> IF i <= 4 /\ i <= Len(r) /\ ~IsNa(r[i]) THEN r[i].s ELSE ""]

BodyRowsAre(now, offset) ==
    \A k \in 1..Len(rows) :
        RowTexts(now.rows[offset + k]) = ExpectedRowTexts(rows[k], now.ncols)

OtherPartsUntouched ==
    /\ doc.paragraphs = template.paragraphs
    /\ Len(doc.tables) = Len(template.tables)
    /\ \A j \in 1..Len(doc.tables) : j # table => doc.tables[j] = template.tables[j]

\* C6 as claimed: once build has cleared and filled the target table, the table is the
\* template's header row, unchanged, followed by one body row per input row, in order,
\* with that row's first four values ("" for a missing one); same column count.
C6_HeaderThenRows ==
    b_pc = "placeholders" =>
        LET orig == template.tables[table]
            now == doc.tables[table]
        IN /\ now.ncols = orig.ncols
           /\ Len(now.rows) = 1 + Len(rows)
           /\ orig.rows # <<>> => now.rows[1] = orig.rows[1]
           /\ BodyRowsAre(now, 1)

\* C6 amended: the same for a target table that has a row to keep as header; a target
\* table with no row at all ends with the body rows alone.
C6_HeaderThenRows_WhenHeader ==
    b_pc = "placeholders" =>
        LET orig == template.tables[table]
            now == doc.tables[table]
            hdr == IF orig.rows = <<>> THEN 0 ELSE 1
        IN /\ now.ncols = orig.ncols
           /\ Len(now.rows) = hdr + Len(rows)
           /\ hdr = 1 => now.rows[1] = orig.rows[1]
           /\ BodyRowsAre(now, hdr)
           /\ OtherPartsUntouched

\* template body rows were dropped and rows with a missing value were written
C6_Witness ==
    /\ b_pc = "placeholders"
    /\ Len(template.tables[table].rows) >= 3
    /\ Len(rows) = 2 /\ rows[1] # rows[2]
    /\ \E k \in 1..Len(rows) : \E i \in 1..Len(rows[k]) : IsNa(rows[k][i])

\* C7 as claimed: for every table and row list, clear+fill twice leaves what clear+fill
\* once left.
C7_PopulateIdempotent ==
    (p_pc = "clear" /\ p_calls >= 1) => p_table = p_first

\* C7 amended: the same for every table that has at least one row.
C7_PopulateIdempotent_WhenHeader ==
    (p_pc = "clear" /\ p_calls >= 1 /\ p_template.rows # <<>>) => p_table = p_first

\* a table with template body rows populated twice with rows
C7_Witness ==
    /\ p_pc = "clear" /\ p_calls = 2
    /\ Len(p_template.rows) >= 2
    /\ Len(p_rows) >= 2
    /\ Len(p_table.rows) = 1 + Len(p_rows)

\* every paragraph of a document with where it was before: body paragraphs and cells
ParagraphPairs ==
    {<<s_orig.paragraphs[i], s_doc.paragraphs[i]>> : i \in 1..Len(s_orig.paragraphs)}
    \cup UNION { UNION { {<<s_orig.tables[t].rows[r][c], s_doc.tables[t].rows[r][c]>> :
                             c \in 1..Len(s_orig.tables[t].rows[r])} :
                         r \in 1..Len(s_orig.tables[t].rows)} :
                 t \in 1..Len(s_orig.tables)}

HasToken(p) == \E i \in 1..Len(s_mapping) : StrIn("{{" \o s_mapping[i].k \o "}}", Join(p))

\* C8: a paragraph whose joined run text holds a token of the map ends with the whole
\* joined text, tokens replaced, in its first run and every later run empty; the runs
\* "{{NA", "ME}}" with NAME -> Alice end as "Alice", "".
C8_SplitTokenReplaced ==
    s_pc = "done" =>
        \A pair \in ParagraphPairs :
            LET before == pair[1]
                after == pair[2]
            IN HasToken(before) =>
                /\ Len(after) = Len(before)
                /\ after[1] = ReplaceTokens(Join(before), Tokens(s_mapping)).full
                /\ \A j \in 2..Len(after) : after[j] = ""
                /\ (before = <<"{{NA", "ME}}">> /\ s_mapping = <<[k |-> "NAME", v |-> "Alice"]>>)
                       => after = <<"Alice", "">>

C8_Witness ==
    /\ s_pc = "done"
    /\ s_mapping = <<[k |-> "NAME", v |-> "Alice"]>>
    /\ <<<<"{{NA", "ME}}">>, <<"Alice", "">>>> \in ParagraphPairs

\* C9: a paragraph whose joined run text holds no token of the map keeps its runs and
\* their texts as they were, unknown tokens included.
C9_NoTokenUntouched ==
    s_pc = "done" =>
        \A pair \in ParagraphPairs : ~HasToken(pair[1]) => pair[2] = pair[1]

C9_Witness ==
    /\ s_pc = "done"
    /\ s_mapping # <<>>
    /\ \E pair \in ParagraphPairs :
        /\ ~HasToken(pair[1])
        /\ Len(pair[1]) = 2
        /\ StrIn("{{X}}", Join(pair[1]))
        /\ pair[2] = pair[1]
    /\ \E pair \in ParagraphPairs : HasToken(pair[1])

SynonymSet(role) == {SYNONYMS[role][k] : k \in 1..Len(SYNONYMS[role])}
ExactAt(role) == {i \in 1..Len(columns) : Norm(columns[i]) \in SynonymSet(role)}
PartialAt(role) ==
    {i \in 1..Len(columns) : \E a \in SynonymSet(role) : StrIn(a, Norm(columns[i]))}
FallbackAt ==
    {i \in 1..Len(columns) :
        \E k \in 1..Len(GRUPO_FALLBACK) : StrIn(GRUPO_FALLBACK[k], Norm(columns[i]))}

\* C10: for every header list and role, when some header's normalised text equals a
\* synonym of the role the role maps to the first such header, whatever headers only
\* contain a synonym; a role nothing matches stays None.
C10_ExactBeforePartial ==
    m_pc = "done" =>
        \A role \in RoleSet :
            /\ ExactAt(role) # {} => mapping[role] = Text(columns[MinOf(ExactAt(role))])
            /\ (PartialAt(role) = {} /\ (role = "grupo" => FallbackAt = {}))
                   => mapping[role] = NA

\* an exact header declared after a header that only contains a synonym
C10_Witness ==
    /\ m_pc = "done"
    /\ \E role \in RoleSet :
        /\ ExactAt(role) # {}
        /\ \E i \in PartialAt(role) \ ExactAt(role) : i < MinOf(ExactAt(role))
    /\ \E role \in RoleSet : mapping[role] = NA

\* a required role without a column, or a role whose column the sheet lacks
RequiredUnresolved(m) == \E i \in 1..Len(REQUIRED) : IsNa(m[REQUIRED[i]])
NamesAbsentColumn(cols, m) == \E role \in RoleSet : ~IsNa(m[role]) /\ ~InList(m[role].s, cols)

\* C11: when a required role is unresolved, or the mapping names a column the sheet
\* lacks, main ends in an error before generate_letters_per_group is called and writes
\* no letter and no index.
C11_BatchFailureWritesNothing ==
    ( /\ c_pc # "start"
      /\ \/ RequiredUnresolved(MappingOfRun(c_columns, c_group))
         \/ NamesAbsentColumn(c_columns, MappingOfRun(c_columns, c_group)) )
        => /\ c_pc \in {"mapped", "failed"}
           /\ c_pc = "mapped" => ~c_called /\ c_err = ""
           /\ c_pc = "failed" => c_err \in {"SystemExit", "ValueError", "KeyError"}
           /\ ~c_called
           /\ c_outputs = {} /\ c_files = {}

\* every required role has a column, --group names a column the sheet lacks, and the
\* run has ended in prepare_dataframe
C11_Witness ==
    /\ c_pc = "failed"
    /\ ~RequiredUnresolved(c_mapping)
    /\ NamesAbsentColumn(c_columns, c_mapping)
    /\ c_err = "KeyError"
    /\ c_nrows > 0 /\ c_template.exists

\* the formats that read s, by strptime alone
FormatsReading(s) == {i \in 1..Len(FORMATS) : StrptimeDate(s, FORMATS[i]) # 0}

\* C12: parse_date gives null for null; for a number, 1899-12-30 plus its whole days;
\* for a str, what the first of the six formats that reads it gives; a str left
\* without a timestamp is displayed as the empty string.
C12_ParsePolicy ==
    d_pc = "done" =>
        CASE d_val.kind = "na" -> d_ts = NaT /\ d_text = ""
          [] d_val.kind = "num" ->
                /\ d_ts = Day(CivilFromDays(EXCEL_EPOCH + IntOf(d_val.n)))
                /\ d_val.n = 10 => d_text = "31/12/1899"
          [] OTHER ->
                /\ FormatsReading(Strip(d_val.s)) # {} =>
                      d_ts = Day(StrptimeDate(Strip(d_val.s),
                                              FORMATS[MinOf(FormatsReading(Strip(d_val.s)))]))
                /\ d_val.s = "05/04/2024" => d_text = "05/04/2024"
                /\ d_ts.na => d_text = ""

\* the entries of a dict in every order they could have been inserted in
Reorderings(m) == {[i \in 1..Len(m) |-> m[p[i]]] : p \in Permutations(1..Len(m))}

\* the text of every body paragraph and of every cell of d
TextsOf(d) ==
    [paragraphs |-> [i \in 1..Len(d.paragraphs) |-> Join(d.paragraphs[i])],
     tables |-> [t \in 1..Len(d.tables) |->
                   [r \in 1..Len(d.tables[t].rows) |-> RowTexts(d.tables[t].rows[r])]]]

\* C13: the text _replace_placeholders_runsafe leaves in each paragraph is the same
\* whatever the order of the entries of the mapping, values that hold the token of
\* another key included.
C13_OrderIndependent ==
    s_pc = "done" =>
        \A m \in Reorderings(s_mapping) :
            TextsOf(ReplacePlaceholdersRunsafe(s_orig, m, TRUE)) = TextsOf(s_doc)

====
